---- MODULE Spec2Model ----
(***************************************************************************)
(* Model of dbusdeviation/utilities/vcs_helper.py: the dist, check and     *)
(* install operations of the API signature database kept in git notes,     *)
(* and the FIFO orchestration of one comparison round.                     *)
(*                                                                         *)
(* Strings that the code parses (git output, ref names, paths) are         *)
(* sequences of atoms: an atom is either a separator character ("/" or     *)
(* the newline) or a separator-free chunk of characters.  The empty        *)
(* string is the empty sequence.                                           *)
(*                                                                         *)
(* Record constructors list their fields in the order in which the field   *)
(* names first occur in this module, and use no name of a standard         *)
(* module: TLC sorts the fields of a record in that order, in place, and   *)
(* a constructor that is already sorted keeps its workers from reordering  *)
(* the same record at the same time.                                       *)
(***************************************************************************)
EXTENDS Integers, Sequences, FiniteSets, TLC

\* ------------------------------------------------------------------ bounds
MaxRuns  == 2      \* commands run one after the other in one behaviour
MaxFiles == 2      \* length of args.dbus_api_xml_files
MaxRefs  == 2      \* namespaces that may exist in a signature database

\* ----------------------------------------------------------------- strings
NL    == "\n"
SLASH == "/"
Empty == << >>

IsSpace(c) == c = NL

RECURSIVE LStrip(_)
LStrip(s) == IF s # << >> /\ IsSpace(Head(s)) THEN LStrip(Tail(s)) ELSE s

RECURSIVE RStrip(_)
RStrip(s) ==
    IF s # << >> /\ IsSpace(s[Len(s)]) THEN RStrip(SubSeq(s, 1, Len(s) - 1))
    ELSE s

\* str.strip(): leading and trailing whitespace removed
Strip(s) == RStrip(LStrip(s))

\* str.split('\n'): the fields between newlines; '' gives ['']
RECURSIVE SplitFrom(_, _)
SplitFrom(s, cur) ==
    IF s = << >> THEN << cur >>
    ELSE IF Head(s) = NL THEN << cur >> \o SplitFrom(Tail(s), << >>)
    ELSE SplitFrom(Tail(s), Append(cur, Head(s)))

Split(s) == SplitFrom(s, << >>)

\* os.path.basename(): what follows the last "/"
RECURSIVE Basename(_)
Basename(p) ==
    IF p = << >> THEN << >>
    ELSE IF p[Len(p)] = SLASH THEN << >>
    ELSE Basename(SubSeq(p, 1, Len(p) - 1)) \o << p[Len(p)] >>

\* what git prints for a list of names: each name on a line of its own
RECURSIVE Lines(_)
Lines(names) ==
    IF names = << >> THEN << >>
    ELSE Head(names) \o << NL >> \o Lines(Tail(names))

\* check_output(...).strip().decode('utf-8').split('\n')
OutputLines(out) == Split(Strip(out))

\* ------------------------------------------------------------- environment
T1 == << "v1" >>
T2 == << "v2" >>
TagOrder == << T1, T2 >>            \* creation order of the release tags
Markers  == { T1, T2 }
TagSets  == { {}, {T1}, {T1, T2} }

AX == << "a", SLASH, "x" >>
BX == << "b", SLASH, "x" >>
AY == << "a", SLASH, "y" >>
Paths == { AX, BX, AY }

REFS_ROOT == << "refs", SLASH, "api" >>      \* 'refs/%s' % args.dbus_api_git_refs
NsPool == << << "x" >>, << "y" >>, << "z" >> >>
NsNames == { NsPool[i] : i \in 1..MaxRefs }

Statuses == { 0, 3, 5 }              \* exit statuses of dbus-interface-diff
FileLists == UNION { [1..n -> Paths] : n \in 1..MaxFiles }

\* the object ID of a file in a tag: content addressed, so distinct files
\* and distinct releases have distinct IDs here
BlobId(tag, path) == << "#" >> \o tag \o path

VARIABLES
    tags,       \* the annotated tags of the repository
    tree,       \* tree[t]: the paths present in tag t
    files,      \* args.dbus_api_xml_files
    difftool,   \* how the installed dbus-interface-diff reads its inputs
    remote,     \* the signature database of the remote
    notes,      \* the local signature database: records [ns, obj, id]
    cmd,        \* args.func: "none", "dist", "check", "install"
    pc,         \* position of the running handler
    retval,     \* the handler's return value
    exitCode,   \* the exit status of the process, -1 while it runs
    runs,       \* commands started so far
    loc,        \* locals of the running handler
    proc,       \* subprocesses and FIFO ends of the current round
    dirs,       \* temporary directories that exist
    hist,       \* what the current run has done so far
    prev,       \* what the previous run did
    lastPut     \* the last git notes add

vars == << tags, tree, files, difftool, remote, notes, cmd, pc, retval, exitCode, runs,
           loc, proc, dirs, hist, prev, lastPut >>

envVars == << tags, tree, files, difftool >>

\* ------------------------------------------------------ signature database
Rec(ns, obj, id) == [ns |-> ns, obj |-> obj, id |-> id]

\* git notes --ref refs/<root>/<ns> show <obj>
Get(db, ns, obj) == { r.id : r \in { q \in db : q.ns = ns /\ q.obj = obj } }

\* git rev-parse --verify --quiet '<tag>^{tag}:<file>': output, or failure
RevParseFile(tag, path) ==
    IF tag \in tags /\ path \in tree[tag]
    THEN [ok |-> TRUE, stdout |-> BlobId(tag, path) \o << NL >>]
    ELSE [ok |-> FALSE, stdout |-> << >>]

\* _get_contents_of_file
GetContentsOfFile(tag, path) ==
    LET r == RevParseFile(tag, path)
    IN  [ok |-> r.ok, rev |-> Strip(r.stdout)]

\* variants of git notes add used to test the properties below
NotesAddForce(db, ns, obj, id) ==
    [db |-> { r \in db : ~(r.ns = ns /\ r.obj = obj) } \cup { Rec(ns, obj, id) },
     ok |-> TRUE]

NotesAddMerge(db, ns, obj, id) ==
    [db |-> db \cup { Rec(ns, obj, id) }, ok |-> TRUE]

\* git notes --ref refs/<root>/<ns> add -C <id> <obj>, without -f: refuses
\* when obj already has a note in this ref, and when obj does not resolve
NotesAdd(db, ns, obj, id) ==
    IF obj \notin tags \/ Get(db, ns, obj) # {}
    THEN [db |-> db, ok |-> FALSE]
    ELSE [db |-> db \cup { Rec(ns, obj, id) }, ok |-> TRUE]

\* _set_notes_for_ref
SetNotesForRef(db, tag, api_xml_basename, id) ==
    NotesAdd(db, api_xml_basename, tag, id)

\* the namespaces of a database, in the order git for-each-ref lists them
NsOf(db) == { r.ns : r \in db }
RefName(ns) == REFS_ROOT \o << SLASH >> \o ns
ForEachRef(db) ==
    Lines([i \in 1..Len(SelectSeq(NsPool, LAMBDA n : n \in NsOf(db))) |->
             RefName(SelectSeq(NsPool, LAMBDA n : n \in NsOf(db))[i])])

\* git fetch/push 'refs/<root>/*': the refs of the source replace those of
\* the same name in the destination
Mirror(dst, src) == { r \in dst : r.ns \notin NsOf(src) } \cup src

\* git rev-list --tags --max-count=1: the commit of the newest tag, if any
SortedTags == SelectSeq(TagOrder, LAMBDA t : t \in tags)
RevListTags ==
    IF SortedTags = << >> THEN << >>
    ELSE << "c" >> \o SortedTags[Len(SortedTags)] \o << NL >>

\* git describe --tags <commit>...: fails unless every argument is a commit
Describe(commits) ==
    IF \A i \in 1..Len(commits) :
          \E t \in tags : commits[i] = << "c" >> \o t
    THEN [ok |-> TRUE, stdout |-> Tail(commits[1]) \o << NL >>]
    ELSE [ok |-> FALSE, stdout |-> << >>]

\* a variant that does not notice that git describe failed
GetLatestReleaseUnchecked ==
    LET tag_list == OutputLines(RevListTags)
        d == Describe(tag_list)
    IN  [tag |-> Strip(d.stdout), ok |-> TRUE]

\* _get_latest_release
GetLatestRelease ==
    LET tag_list == OutputLines(RevListTags)
        d == Describe(tag_list)
    IN  [tag |-> Strip(d.stdout), ok |-> d.ok]

\* a variant that accepts every ref
IsReleaseAny(ref) == TRUE

\* _is_release: git rev-parse --verify <ref> exits with 0
IsRelease(ref) == ref \in tags

\* git tag
GitTag == Lines(SortedTags)

\* ------------------------------------------------------------ observations
NoPut == [done |-> FALSE]
NewHist ==
    [writes |-> 0, pushes |-> 0, fetches |-> 0, enumerated |-> FALSE,
     mkdtemps |-> 0, diffs |-> 0, prods |-> 0, statuses |-> << >>,
     report |-> << >>, failedAt |-> 0, attempted |-> 0, loopDone |-> FALSE,
     raised |-> FALSE, startNotes |-> {}, faults |-> {}]
NoPrev == [cmd |-> "none", loopDone |-> FALSE]
NoLoc  == [idle |-> TRUE]
NoProc ==
    [diff |-> "none", status |-> 0,
     rd   |-> [old |-> "closed", new |-> "closed"],
     wr   |-> [old |-> {}, new |-> {}],
     prod |-> [old |-> "none", new |-> "none"]]

\* ---------------------------------------------------------- process entry
\* main(): return args.func(args)
Main(handlerRet) == handlerRet

\* if __name__ == '__main__': main()  -- the value of main() is dropped; the
\* interpreter exits with 0, or with 1 after an uncaught exception
ScriptEntry(raised, mainRet) == IF raised THEN 1 ELSE 0

Idle == pc \in { "idle", "exited" } /\ runs < MaxRuns

Begin(c, first, locals) ==
    /\ Idle
    /\ cmd' = c
    /\ pc' = first
    /\ runs' = runs + 1
    /\ retval' = -1
    /\ exitCode' = -1
    /\ loc' = locals
    /\ hist' = [NewHist EXCEPT !.startNotes = notes]
    /\ prev' = [cmd |-> cmd, loopDone |-> hist.loopDone]
    /\ UNCHANGED << envVars, remote, notes, proc, dirs, lastPut >>

Return(v) == retval' = v /\ pc' = "returned"

ScriptExit ==
    /\ pc \in { "returned", "raised" }
    /\ exitCode' = ScriptEntry(pc = "raised", Main(retval))
    /\ pc' = "exited"
    /\ UNCHANGED << envVars, remote, notes, cmd, retval, runs, loc, proc,
                    dirs, hist, prev, lastPut >>

PutRecord(ns, obj, id, a) ==
    [ns |-> ns, obj |-> obj, id |-> id, ok |-> a.ok, done |-> TRUE,
     old |-> Get(notes, ns, obj)]

\* -------------------------------------------------------------------- dist
StartDist == Begin("dist", "dist_latest", [latest_tag |-> Empty, file_i |-> 1])

DistLatest ==
    /\ pc = "dist_latest"
    /\ LET r == GetLatestRelease
       IN  IF r.ok
           THEN /\ loc' = [loc EXCEPT !.latest_tag = r.tag]
                /\ pc' = "dist_file"
                /\ UNCHANGED retval
           ELSE /\ Return(1)
                /\ UNCHANGED loc
    /\ UNCHANGED << envVars, remote, notes, cmd, exitCode, runs, proc, dirs,
                    hist, prev, lastPut >>

\* a failure handler that goes on with the next file
DistFailSkip ==
    /\ hist' = [hist EXCEPT !.attempted = loc.file_i, !.failedAt = loc.file_i,
                            !.loopDone = loc.file_i = Len(files)]
    /\ loc' = [loc EXCEPT !.file_i = @ + 1]
    /\ pc' = IF loc.file_i = Len(files) THEN "dist_push" ELSE "dist_file"
    /\ UNCHANGED << notes, retval >>

\* except subprocess.CalledProcessError: ... return 1
DistFail ==
    /\ Return(1)
    /\ hist' = [hist EXCEPT !.attempted = loc.file_i, !.failedAt = loc.file_i]
    /\ UNCHANGED << notes, loc >>

\* one iteration of the loop over args.dbus_api_xml_files
DistFile ==
    /\ pc = "dist_file"
    /\ LET f    == files[loc.file_i]
           c    == GetContentsOfFile(loc.latest_tag, f)
           base == Basename(f)
           a    == NotesAdd(notes, base, loc.latest_tag, c.rev)
       IN  /\ lastPut' = IF c.ok
                         THEN PutRecord(base, loc.latest_tag, c.rev, a)
                         ELSE lastPut
           /\ IF c.ok /\ a.ok
              THEN /\ notes' = a.db
                   /\ hist' = [hist EXCEPT
                         !.writes = @ + 1,
                         !.attempted = loc.file_i,
                         !.loopDone = loc.file_i = Len(files),
                         !.report = Append(@, << loc.latest_tag, "added", base >>)]
                   /\ loc' = [loc EXCEPT !.file_i = @ + 1]
                   /\ pc' = IF loc.file_i = Len(files) THEN "dist_push"
                            ELSE "dist_file"
                   /\ UNCHANGED retval
              ELSE DistFail
    /\ UNCHANGED << envVars, remote, cmd, exitCode, runs, proc, dirs, prev >>

\* _push_notes at the end of dist
DistPush ==
    /\ pc = "dist_push"
    /\ \E ok \in BOOLEAN :
          /\ remote' = IF ok THEN Mirror(remote, notes) ELSE remote
          /\ Return(IF ok THEN 0 ELSE 1)
    /\ hist' = [hist EXCEPT !.pushes = @ + 1]
    /\ UNCHANGED << envVars, notes, cmd, exitCode, runs, loc, proc, dirs,
                    prev, lastPut >>

\* ----------------------------------------------------------------- install
StartInstall == Begin("install", "inst_tags", NoLoc)

InstallTags ==
    /\ pc = "inst_tags"
    /\ \E ok \in BOOLEAN :
          IF ok
          THEN /\ loc' = [tag_list |-> OutputLines(GitTag), file_i |-> 1, tag_i |-> 1,
                          outputted |-> FALSE]
               /\ pc' = "inst_file"
               /\ UNCHANGED retval
          ELSE /\ Return(1)
               /\ UNCHANGED loc
    /\ UNCHANGED << envVars, remote, notes, cmd, exitCode, runs, proc, dirs,
                    hist, prev, lastPut >>

\* a variant in which a file that cannot be resolved or attached ends install
InstallAbortsOnFailure(resolved, attached) == ~resolved \/ ~attached

\* except subprocess.CalledProcessError: # Ignore it -- for both calls
InstallAborts(resolved, attached) == FALSE

\* one iteration of the inner loop, with the end of the outer iteration
\* when it is the last file of the tag
InstallFile ==
    /\ pc = "inst_file"
    /\ LET tag   == loc.tag_list[loc.tag_i]
           f     == files[loc.file_i]
           base  == Basename(f)
           c     == GetContentsOfFile(tag, f)
           id    == IF c.ok THEN c.rev ELSE Empty
           a     == SetNotesForRef(notes, tag, base, id)
           wrote == id # Empty /\ a.ok
           outp  == loc.outputted \/ wrote
           lastFile == loc.file_i = Len(files)
           lastTag  == loc.tag_i = Len(loc.tag_list)
       IN  IF InstallAborts(c.ok, id = Empty \/ a.ok)
           THEN /\ Return(1)
                /\ UNCHANGED << notes, lastPut, hist, loc >>
           ELSE
           /\ notes' = IF wrote THEN a.db ELSE notes
           /\ lastPut' = IF id # Empty THEN PutRecord(base, tag, id, a)
                         ELSE lastPut
           /\ hist' = [hist EXCEPT
                 !.writes = IF wrote THEN @ + 1 ELSE @,
                 !.attempted = @ + 1,
                 !.loopDone = lastFile /\ lastTag,
                 !.report = @ \o (IF wrote THEN << << tag, "added", base >> >>
                               ELSE << >>)
                           \o (IF lastFile /\ ~outp
                               THEN << << tag, "nothing" >> >> ELSE << >>)]
           /\ loc' = IF lastFile
                     THEN [loc EXCEPT !.tag_i = @ + 1, !.file_i = 1,
                                      !.outputted = FALSE]
                     ELSE [loc EXCEPT !.file_i = @ + 1, !.outputted = outp]
           /\ pc' = IF lastFile /\ lastTag THEN "inst_push" ELSE "inst_file"
           /\ UNCHANGED retval
    /\ UNCHANGED << envVars, remote, cmd, exitCode, runs, proc, dirs, prev >>

\* _push_notes at the end of install
InstallPush ==
    /\ pc = "inst_push"
    /\ \E ok \in BOOLEAN :
          /\ remote' = IF ok THEN Mirror(remote, notes) ELSE remote
          /\ Return(IF ok THEN 0 ELSE 1)
          /\ hist' = [hist EXCEPT
                !.pushes = @ + 1,
                !.faults = IF ok THEN @ ELSE @ \cup { "push" }]
    /\ UNCHANGED << envVars, notes, cmd, exitCode, runs, loc, proc, dirs,
                    prev, lastPut >>

\* ------------------------------------------- specification: the recorder
Init ==
    /\ tags \in TagSets
    /\ tree \in { tr \in [Markers -> SUBSET Paths] :
                     \A t \in Markers \ tags : tr[t] = {} }
    /\ files \in FileLists
    /\ difftool = "free"
    /\ remote = {}
    /\ notes = {}
    /\ cmd = "none"
    /\ pc = "idle"
    /\ retval = -1
    /\ exitCode = -1
    /\ runs = 0
    /\ loc = NoLoc
    /\ proc = NoProc
    /\ dirs = {}
    /\ hist = NewHist
    /\ prev = NoPrev
    /\ lastPut = NoPut

Next ==
    \/ StartDist
    \/ DistLatest
    \/ DistFile
    \/ DistPush
    \/ StartInstall
    \/ InstallTags
    \/ InstallFile
    \/ InstallPush
    \/ ScriptExit

Spec == Init /\ [][Next]_vars


\* ------------------------------------------------------------------- check
RefArgs == { Empty, T1, T2 }         \* values of args.old_ref, args.new_ref
Fifos == { "old", "new" }
PathOrder == << AX, AY, BX >>

\* named_pipe(): tempfile.mkdtemp(), then os.mkfifo() inside the try block
\* whose finally clause removes the directory
NamedPipeExit(d, name) == d \ { name }

NamedPipeEnterLeak(d, name, outcome) ==
    CASE outcome = "mkdtemp_fails" -> [dirs |-> d, ok |-> FALSE]
      [] outcome = "mkfifo_fails"  -> [dirs |-> d \cup { name }, ok |-> FALSE]
      [] OTHER                     -> [dirs |-> d \cup { name }, ok |-> TRUE]

NamedPipeEnter(d, name, outcome) ==
    CASE outcome = "mkdtemp_fails" -> [dirs |-> d, ok |-> FALSE]
      [] outcome = "mkfifo_fails"  ->
            [dirs |-> NamedPipeExit(d \cup { name }, name), ok |-> FALSE]
      [] OTHER                     -> [dirs |-> d \cup { name }, ok |-> TRUE]

PipeOutcomes == { "ok", "mkdtemp_fails", "mkfifo_fails" }

\* the directories left when both context managers of the round are left
Unwind(d, k) == NamedPipeExit(NamedPipeExit(d, << k, "new" >>), << k, "old" >>)

\* if retval == 0 and diff_proc.returncode != 0: retval = returncode
AggregateLast(rv, returncode) == IF returncode # 0 THEN returncode ELSE rv

Aggregate(rv, returncode) ==
    IF rv = 0 /\ returncode # 0 THEN returncode ELSE rv

\* the statements of one round, in the order the code runs them
RoundStepsOpenFirst ==
    << "r_pipe_old", "r_pipe_new", "r_resolve", "r_open_old", "r_popen_diff",
       "r_popen_old", "r_new", "r_popen_new", "r_wait_old", "r_wait_new",
       "r_wait_diff" >>

RoundSteps ==
    << "r_pipe_old", "r_pipe_new", "r_resolve", "r_popen_diff", "r_open_old",
       "r_popen_old", "r_new", "r_popen_new", "r_wait_old", "r_wait_new",
       "r_wait_diff" >>

After(label) ==
    LET n == CHOOSE i \in 1..Len(RoundSteps) : RoundSteps[i] = label
    IN  IF n = Len(RoundSteps) THEN "chk_loop" ELSE RoundSteps[n + 1]

InRound == cmd = "check" /\ pc \in { RoundSteps[i] : i \in 1..Len(RoundSteps) }

\* git ls-files '*/<basename>' for some working tree: the tracked paths
\* with that base name, one per line
LsFilesOutputs(base) ==
    { Lines(SelectSeq(PathOrder, LAMBDA q : q \in S)) :
        S \in SUBSET { q \in Paths : base # Empty /\ Basename(q) = base } }

chkFrame == << envVars, remote, cmd, exitCode, runs, prev, lastPut >>

\* an exception leaves the round: the with blocks close the orchestrator's
\* FIFO ends and remove the directories
Raise ==
    /\ pc' = "raised"
    /\ dirs' = Unwind(dirs, loc.k)
    /\ proc' = [proc EXCEPT !.wr.old = @ \ { "orch" }, !.wr.new = @ \ { "orch" }]
    /\ hist' = [hist EXCEPT !.raised = TRUE]
    /\ UNCHANGED << retval, loc, notes >>

StartCheck ==
    \E o \in RefArgs, n \in RefArgs :
        Begin("check", "chk_old",
              [api_xml_basename |-> Empty, k |-> 0, args_old |-> o,
               args_new |-> n, old_ref |-> Empty, new_ref |-> Empty,
               refs |-> << >>, new_notes_filename |-> Empty])

\* if args.old_ref != '' and not _is_release(args, args.old_ref): return 1
CheckOld ==
    /\ pc = "chk_old"
    /\ IF loc.args_old # Empty /\ ~IsRelease(loc.args_old)
       THEN Return(1)
       ELSE pc' = "chk_new" /\ UNCHANGED retval
    /\ UNCHANGED << chkFrame, notes, loc, proc, dirs, hist >>

\* if args.new_ref != '' and not _is_release(args, args.new_ref): return 1
CheckNew ==
    /\ pc = "chk_new"
    /\ IF loc.args_new # Empty /\ ~IsRelease(loc.args_new)
       THEN Return(1)
       ELSE pc' = "chk_fetch" /\ UNCHANGED retval
    /\ UNCHANGED << chkFrame, notes, loc, proc, dirs, hist >>

\* a variant in which a failed fetch ends the command
AfterFetchFatal(ok) == IF ok THEN "chk_latest" ELSE "returned"

\* try: _fetch_notes(args) except CalledProcessError: the failure is
\* reported and the command goes on
AfterFetch(ok) == "chk_latest"

\* _fetch_notes, then old_ref = args.old_ref and new_ref = args.new_ref
CheckFetch ==
    /\ pc = "chk_fetch"
    /\ \E ok \in BOOLEAN :
          /\ notes' = IF ok THEN Mirror(notes, remote) ELSE notes
          /\ hist' = [hist EXCEPT
                !.fetches = @ + 1,
                !.faults = IF ok THEN @ ELSE @ \cup { "fetch" }]
          /\ pc' = AfterFetch(ok)
          /\ retval' = IF AfterFetch(ok) = "returned" THEN 1 ELSE retval
    /\ loc' = [loc EXCEPT !.old_ref = loc.args_old, !.new_ref = loc.args_new]
    /\ UNCHANGED << chkFrame, proc, dirs >>

\* if old_ref == '': old_ref = _get_latest_release(args), or return 1
CheckLatest ==
    /\ pc = "chk_latest"
    /\ IF loc.old_ref = Empty
       THEN LET r == GetLatestRelease
            IN  IF r.ok
                THEN /\ loc' = [loc EXCEPT !.old_ref = r.tag]
                     /\ pc' = "chk_refs"
                     /\ UNCHANGED retval
                ELSE Return(1) /\ UNCHANGED loc
       ELSE pc' = "chk_refs" /\ UNCHANGED << retval, loc >>
    /\ UNCHANGED << chkFrame, notes, proc, dirs, hist >>

\* a variant that fetches once more before it lists the namespaces
CheckRefsRefetch ==
    /\ pc = "chk_refs"
    /\ notes' = Mirror(notes, remote)
    /\ \E ok \in BOOLEAN :
          IF ok
          THEN /\ loc' = [loc EXCEPT
                     !.refs = OutputLines(ForEachRef(Mirror(notes, remote))),
                     !.k = 1]
               /\ retval' = 0
               /\ pc' = "chk_loop"
               /\ hist' = [hist EXCEPT !.enumerated = TRUE]
          ELSE /\ Return(1)
               /\ hist' = [hist EXCEPT !.faults = @ \cup { "list" }]
               /\ UNCHANGED loc
    /\ UNCHANGED << chkFrame, proc, dirs >>

\* git for-each-ref --format=%(refname) refs/<root>, then retval = 0
CheckRefs ==
    /\ pc = "chk_refs"
    /\ \E ok \in BOOLEAN :
          IF ok
          THEN /\ loc' = [loc EXCEPT !.refs = OutputLines(ForEachRef(notes)),
                                     !.k = 1]
               /\ retval' = 0
               /\ pc' = "chk_loop"
               /\ hist' = [hist EXCEPT !.enumerated = TRUE]
          ELSE /\ Return(1)
               /\ hist' = [hist EXCEPT !.faults = @ \cup { "list" }]
               /\ UNCHANGED loc
    /\ UNCHANGED << chkFrame, notes, proc, dirs >>

\* for note_ref in refs: ... ; return retval
LoopHead ==
    /\ pc = "chk_loop"
    /\ IF loc.k > Len(loc.refs)
       THEN /\ pc' = "returned"
            /\ UNCHANGED << loc, proc >>
       ELSE /\ loc' = [loc EXCEPT !.api_xml_basename = Basename(loc.refs[loc.k]),
                                  !.new_notes_filename = Empty]
            /\ proc' = NoProc
            /\ pc' = RoundSteps[1]
    /\ UNCHANGED << chkFrame, notes, retval, dirs, hist >>

\* with named_pipe() as old_pipe_path, ...
PipeOld ==
    /\ pc = "r_pipe_old"
    /\ \E outcome \in PipeOutcomes :
          LET e == NamedPipeEnter(dirs, << loc.k, "old" >>, outcome)
          IN  /\ dirs' = e.dirs
              /\ hist' = [hist EXCEPT
                    !.mkdtemps = IF outcome = "mkdtemp_fails" THEN @ ELSE @ + 1,
                    !.raised = ~e.ok,
                    !.faults = IF e.ok THEN @ ELSE @ \cup { "channel" }]
              /\ pc' = IF e.ok THEN After("r_pipe_old") ELSE "raised"
    /\ UNCHANGED << chkFrame, notes, retval, loc, proc >>

\* ... named_pipe() as new_pipe_path: a failure leaves the first with item
PipeNew ==
    /\ pc = "r_pipe_new"
    /\ \E outcome \in PipeOutcomes :
          LET e == NamedPipeEnter(dirs, << loc.k, "new" >>, outcome)
          IN  /\ dirs' = IF e.ok THEN e.dirs
                         ELSE NamedPipeExit(e.dirs, << loc.k, "old" >>)
              /\ hist' = [hist EXCEPT
                    !.mkdtemps = IF outcome = "mkdtemp_fails" THEN @ ELSE @ + 1,
                    !.raised = ~e.ok,
                    !.faults = IF e.ok THEN @ ELSE @ \cup { "channel" }]
              /\ pc' = IF e.ok THEN After("r_pipe_new") ELSE "raised"
    /\ UNCHANGED << chkFrame, notes, retval, loc, proc >>

\* new_notes_filename: the working tree's file, or the new FIFO
Resolve ==
    /\ pc = "r_resolve"
    /\ IF loc.new_ref = Empty
       THEN \/ \E out \in LsFilesOutputs(loc.api_xml_basename) :
                  /\ loc' = [loc EXCEPT !.new_notes_filename = Strip(out)]
                  /\ pc' = After("r_resolve")
                  /\ UNCHANGED << retval, notes, proc, dirs, hist >>
            \/ Raise
       ELSE /\ loc' = [loc EXCEPT !.new_notes_filename =
                                      << loc.k, "new", SLASH, "fifo" >>]
            /\ pc' = After("r_resolve")
            /\ UNCHANGED << retval, notes, proc, dirs, hist >>
    /\ UNCHANGED chkFrame

\* diff_proc = subprocess.Popen(diff_command)
PopenDiff ==
    /\ pc = "r_popen_diff"
    /\ \/ /\ proc' = [proc EXCEPT !.diff = "running"]
          /\ hist' = [hist EXCEPT !.diffs = @ + 1]
          /\ pc' = After("r_popen_diff")
          /\ UNCHANGED << retval, loc, notes, dirs >>
       \/ Raise
    /\ UNCHANGED chkFrame

\* open(old_pipe_path, 'wb'): returns once the FIFO has a reader
OpenOld ==
    /\ pc = "r_open_old"
    /\ proc.rd.old \in { "opening", "open" }
    /\ proc' = [proc EXCEPT !.wr.old = @ \cup { "orch" }, !.rd.old = "open"]
    /\ pc' = After("r_open_old")
    /\ UNCHANGED << chkFrame, notes, retval, loc, dirs, hist >>

\* old_notes_proc = subprocess.Popen(old_notes_command, stdout=old_pipe)
PopenOld ==
    /\ pc = "r_popen_old"
    /\ \/ /\ proc' = [proc EXCEPT !.prod.old = "running",
                                  !.wr.old = @ \cup { "prod" }]
          /\ hist' = [hist EXCEPT !.prods = @ + 1]
          /\ pc' = After("r_popen_old")
          /\ UNCHANGED << retval, loc, notes, dirs >>
       \/ Raise
    /\ UNCHANGED chkFrame

\* if new_ref == '': new_notes_proc = None
NewFromWorkingCopy ==
    /\ pc = "r_new"
    /\ loc.new_ref = Empty
    /\ pc' = After("r_popen_new")
    /\ UNCHANGED << chkFrame, notes, retval, loc, proc, dirs, hist >>

\* else: with open(new_pipe_path, 'wb') as new_pipe
OpenNew ==
    /\ pc = "r_new"
    /\ loc.new_ref # Empty
    /\ proc.rd.new \in { "opening", "open" }
    /\ proc' = [proc EXCEPT !.wr.new = @ \cup { "orch" }, !.rd.new = "open"]
    /\ pc' = After("r_new")
    /\ UNCHANGED << chkFrame, notes, retval, loc, dirs, hist >>

\* a variant that leaves new_pipe open after the producer is started
PopenNewKeepOpen ==
    /\ pc = "r_popen_new"
    /\ \/ /\ proc' = [proc EXCEPT !.prod.new = "running",
                                  !.wr.new = @ \cup { "prod" }]
          /\ hist' = [hist EXCEPT !.prods = @ + 1]
          /\ pc' = After("r_popen_new")
          /\ UNCHANGED << retval, loc, notes, dirs >>
       \/ Raise
    /\ UNCHANGED chkFrame

\* new_notes_proc = subprocess.Popen(new_notes_command, stdout=new_pipe),
\* and the end of the with block, which closes new_pipe
PopenNew ==
    /\ pc = "r_popen_new"
    /\ \/ /\ proc' = [proc EXCEPT !.prod.new = "running",
                                  !.wr.new = (@ \cup { "prod" }) \ { "orch" }]
          /\ hist' = [hist EXCEPT !.prods = @ + 1]
          /\ pc' = After("r_popen_new")
          /\ UNCHANGED << retval, loc, notes, dirs >>
       \/ Raise
    /\ UNCHANGED chkFrame

\* a variant that does not wait for the old producer
WaitOldNoWait ==
    /\ pc = "r_wait_old"
    /\ pc' = After("r_wait_old")
    /\ UNCHANGED << chkFrame, notes, retval, loc, proc, dirs, hist >>

\* a variant that checks the exit status of the producer, as check_call does
WaitOldChecked ==
    /\ pc = "r_wait_old"
    /\ proc.prod.old \in { "exited_ok", "exited_failed" }
    /\ IF proc.prod.old = "exited_failed"
       THEN Raise /\ UNCHANGED chkFrame
       ELSE /\ pc' = After("r_wait_old")
            /\ UNCHANGED << chkFrame, notes, retval, loc, proc, dirs, hist >>

\* old_notes_proc.communicate(); old_notes_proc.wait()
WaitOld ==
    /\ pc = "r_wait_old"
    /\ proc.prod.old \in { "exited_ok", "exited_failed" }
    /\ pc' = After("r_wait_old")
    /\ UNCHANGED << chkFrame, notes, retval, loc, proc, dirs, hist >>

\* if new_notes_proc is not None: new_notes_proc.wait(); then the end of
\* the with block, which closes old_pipe
WaitNew ==
    /\ pc = "r_wait_new"
    /\ proc.prod.new \in { "none", "exited_ok", "exited_failed" }
    /\ proc' = [proc EXCEPT !.wr.old = @ \ { "orch" }]
    /\ pc' = After("r_wait_new")
    /\ UNCHANGED << chkFrame, notes, retval, loc, dirs, hist >>

\* diff_proc.wait(), the status of the round, and the end of the round
WaitDiff ==
    /\ pc = "r_wait_diff"
    /\ proc.diff = "exited"
    /\ retval' = Aggregate(retval, proc.status)
    /\ hist' = [hist EXCEPT !.statuses = Append(@, proc.status)]
    /\ dirs' = Unwind(dirs, loc.k)
    /\ loc' = [loc EXCEPT !.k = @ + 1]
    /\ pc' = After("r_wait_diff")
    /\ UNCHANGED << chkFrame, notes, proc >>

\* the statements of command_check, which run in the orchestrator process
OrchestratorStep ==
    \/ CheckOld
    \/ CheckNew
    \/ CheckFetch
    \/ CheckLatest
    \/ CheckRefs
    \/ LoopHead
    \/ PipeOld
    \/ PipeNew
    \/ Resolve
    \/ PopenDiff
    \/ OpenOld
    \/ PopenOld
    \/ NewFromWorkingCopy
    \/ OpenNew
    \/ PopenNew
    \/ WaitOld
    \/ WaitNew
    \/ WaitDiff

\* ---- the subprocesses of a round
IsFifoArg(f) == f = "old" \/ loc.new_ref # Empty

procFrame == << chkFrame, notes, pc, retval, loc, dirs, hist >>

\* the ways a diff tool may read its arguments: "free" opens them in any
\* order and may give up at any moment; "sequential" reads the old file to
\* its end before it opens the new one, and exits only between files
DiffTools == { "free", "sequential" }

InOrder(f) ==
    difftool = "sequential" => (f = "new" => proc.rd.old = "done")

Unblocked ==
    /\ \A g \in Fifos : proc.rd[g] # "opening"
    /\ difftool = "sequential" => \A g \in Fifos : proc.rd[g] # "open"

\* the diff tool opens one of its FIFO arguments for reading: the open
\* returns at once if the FIFO has a writer, and blocks until it has one
DiffOpen(f) ==
    /\ InRound
    /\ proc.diff = "running"
    /\ IsFifoArg(f)
    /\ proc.rd[f] = "closed"
    /\ \A g \in Fifos : proc.rd[g] # "opening"
    /\ InOrder(f)
    /\ proc' = [proc EXCEPT !.rd[f] = IF proc.wr[f] # {} THEN "open"
                                      ELSE "opening"]
    /\ UNCHANGED procFrame

\* the diff tool reads a FIFO to its end: every write end is closed
DiffEof(f) ==
    /\ InRound
    /\ proc.diff = "running"
    /\ proc.rd[f] = "open"
    /\ proc.wr[f] = {}
    /\ proc' = [proc EXCEPT !.rd[f] = "done"]
    /\ UNCHANGED procFrame

\* the diff tool exits, when it is not blocked on a FIFO
DiffExit(st) ==
    /\ InRound
    /\ proc.diff = "running"
    /\ Unblocked
    /\ proc' = [proc EXCEPT
          !.diff = "exited", !.status = st,
          !.rd = [g \in Fifos |-> IF proc.rd[g] = "open" THEN "done"
                                  ELSE proc.rd[g]]]
    /\ UNCHANGED procFrame

\* git notes show exits and its end of the FIFO closes
ProdExit(f, how) ==
    /\ InRound
    /\ proc.prod[f] = "running"
    /\ proc' = [proc EXCEPT !.prod[f] = how, !.wr[f] = @ \ { "prod" }]
    /\ UNCHANGED procFrame

\* --------------------------------------- specification: the comparator
DbOf(S) == { Rec(n, T1, BlobId(T1, << "a", SLASH >> \o n)) : n \in S }

InitCheck ==
    /\ tags \in TagSets
    /\ tree = [t \in Markers |-> {}]
    /\ files = << AX >>
    /\ difftool = "free"
    /\ remote \in { DbOf({}), DbOf(NsNames) }
    /\ notes \in { DbOf({ NsPool[i] : i \in 1..n }) : n \in 0..MaxRefs }
    /\ cmd = "none"
    /\ pc = "idle"
    /\ retval = -1
    /\ exitCode = -1
    /\ runs = 0
    /\ loc = NoLoc
    /\ proc = NoProc
    /\ dirs = {}
    /\ hist = NewHist
    /\ prev = NoPrev
    /\ lastPut = NoPut

NextCheck ==
    \/ StartCheck
    \/ CheckOld
    \/ CheckNew
    \/ CheckFetch
    \/ CheckLatest
    \/ CheckRefs
    \/ LoopHead
    \/ PipeOld
    \/ PipeNew
    \/ Resolve
    \/ PopenDiff
    \/ OpenOld
    \/ PopenOld
    \/ NewFromWorkingCopy
    \/ OpenNew
    \/ PopenNew
    \/ WaitOld
    \/ WaitNew
    \/ WaitDiff
    \/ \E f \in Fifos : DiffOpen(f)
    \/ \E f \in Fifos : DiffEof(f)
    \/ \E st \in Statuses : DiffExit(st)
    \/ \E f \in Fifos, how \in { "exited_ok", "exited_failed" } : ProdExit(f, how)
    \/ ScriptExit

SpecCheck == InitCheck /\ [][NextCheck]_vars

\* ------------------- specification: the comparator with a sequential reader
\* The installed diff tool may be one that reads its inputs one after the
\* other.
InitSeq ==
    /\ tags = { T1, T2 }
    /\ tree = [t \in Markers |-> {}]
    /\ files = << AX >>
    /\ difftool \in DiffTools
    /\ remote = DbOf({})
    /\ notes \in { DbOf({ NsPool[i] : i \in 1..n }) : n \in 0..MaxRefs }
    /\ cmd = "none"
    /\ pc = "idle"
    /\ retval = -1
    /\ exitCode = -1
    /\ runs = 0
    /\ loc = NoLoc
    /\ proc = NoProc
    /\ dirs = {}
    /\ hist = NewHist
    /\ prev = NoPrev
    /\ lastPut = NoPut

NextSeq ==
    \/ StartCheck
    \/ CheckOld
    \/ CheckNew
    \/ CheckFetch
    \/ CheckLatest
    \/ CheckRefs
    \/ LoopHead
    \/ PipeOld
    \/ PipeNew
    \/ Resolve
    \/ PopenDiff
    \/ OpenOld
    \/ PopenOld
    \/ NewFromWorkingCopy
    \/ OpenNew
    \/ PopenNew
    \/ WaitOld
    \/ WaitNew
    \/ WaitDiff
    \/ \E f \in Fifos : DiffOpen(f)
    \/ \E f \in Fifos : DiffEof(f)
    \/ \E st \in Statuses : DiffExit(st)
    \/ \E f \in Fifos, how \in { "exited_ok", "exited_failed" } : ProdExit(f, how)
    \/ ScriptExit

SpecSeq == InitSeq /\ [][NextSeq]_vars

\* ------------------------------------------------------------------ claims
Running == pc \notin { "idle", "exited" }
Finished == pc \in { "returned", "raised", "exited" }
Pairs == { << ns, obj >> : ns \in NsOf(notes), obj \in Markers }

\* C4 (as claimed): the exit status of the process is 0 exactly when the
\* handler returned 0, so a non-zero return value of command_dist,
\* command_check or command_install reaches the exit status.
C4_ExitStatusIsHandlerStatus ==
    pc = "exited" => (exitCode = 0 <=> retval = 0)

SecondInstall ==
    cmd = "install" /\ Running /\ prev.cmd = "install" /\ prev.loopDone

C8_InstallIdempotent ==
    SecondInstall =>
        /\ hist.writes = 0
        /\ notes = hist.startNotes
        /\ \A n \in 1..Len(hist.report) : hist.report[n][2] = "nothing"
        /\ hist.loopDone =>
              hist.report = [n \in 1..Len(loc.tag_list) |->
                             << loc.tag_list[n], "nothing" >>]

C8_Witness ==
    /\ SecondInstall
    /\ hist.loopDone
    /\ hist.attempted >= 2
    /\ notes # {}

\* C9: when the k-th file of a dist run fails, the run returns non-zero,
\* has attempted no push, has processed no file after the k-th, and the
\* records written for files 1..k-1 are in the database.
C9_DistAborts ==
    (cmd = "dist" /\ hist.failedAt > 0) =>
        /\ Finished
        /\ retval # 0
        /\ hist.pushes = 0
        /\ hist.attempted = hist.failedAt
        /\ loc.file_i = hist.failedAt
        /\ hist.writes = hist.failedAt - 1
        /\ \A j \in 1..(hist.failedAt - 1) :
              Get(notes, Basename(files[j]), loc.latest_tag)
                  = { GetContentsOfFile(loc.latest_tag, files[j]).rev }

C9_Witness ==
    /\ cmd = "dist"
    /\ pc = "returned"
    /\ hist.failedAt >= 2

\* the first non-zero element of a sequence of exit statuses, 0 if none
RECURSIVE FirstNonZero(_)
FirstNonZero(sts) ==
    IF sts = << >> THEN 0
    ELSE IF Head(sts) # 0 THEN Head(sts)
    ELSE FirstNonZero(Tail(sts))

Returned == pc \in { "returned", "exited" } /\ ~hist.raised

\* C1: once the loop over refs is entered, retval is the first non-zero
\* diff status seen so far (0 if none), a round's status never ends the
\* loop, and when command_check returns, one round has run for every entry
\* of refs.
C1_FirstNonZeroAllRounds ==
    (cmd = "check" /\ hist.enumerated) =>
        /\ retval = FirstNonZero(hist.statuses)
        /\ pc = "chk_loop" => Len(hist.statuses) = loc.k - 1
        /\ InRound => Len(hist.statuses) = loc.k - 1 /\ loc.k <= Len(loc.refs)
        /\ Returned => Len(hist.statuses) = Len(loc.refs)

C1_Witness ==
    /\ cmd = "check"
    /\ pc = "returned"
    /\ Len(hist.statuses) >= 2
    /\ hist.statuses[1] # 0
    /\ hist.statuses[2] \notin { 0, hist.statuses[1] }

\* C2: no channel directory exists whenever control is outside a round:
\* between rounds, and after command_check returned or raised.
C2_ChannelsRemoved ==
    /\ ~InRound => dirs = {}
    /\ InRound => dirs \subseteq { << loc.k, "old" >>, << loc.k, "new" >> }

C2_Witness ==
    /\ cmd = "check"
    /\ pc = "raised"
    /\ hist.mkdtemps >= 2
    /\ hist.prods >= 1

\* C3: in a round, whenever the orchestrator is opening or holds the write
\* end of a FIFO, or a producer of the round has been launched, the diff
\* tool of the round has been started.
C3_DiffStartsFirst ==
    (/\ cmd = "check"
     /\ \/ pc = "r_open_old"
        \/ pc = "r_new" /\ loc.new_ref # Empty
        \/ proc.wr.old # {}
        \/ proc.wr.new # {}
        \/ proc.prod.old # "none"
        \/ proc.prod.new # "none")
    => proc.diff # "none"

C3_Witness ==
    /\ cmd = "check"
    /\ "orch" \in proc.wr.new
    /\ proc.prod.old = "running"

\* C5 (as claimed): the number of rounds is the number of namespaces of the
\* local database; with none, no channel is created, no diff tool and no
\* producer is launched, and command_check returns 0.
C5_NoNamespaceNoRound ==
    (cmd = "check" /\ hist.enumerated) =>
        /\ Len(loc.refs) = Cardinality(NsOf(notes))
        /\ NsOf(notes) = {} =>
              /\ hist.mkdtemps = 0
              /\ hist.diffs = 0
              /\ hist.prods = 0
              /\ Returned => retval = 0

NoMarkersNoNamespaces ==
    /\ cmd = "check"
    /\ loc.args_old = Empty
    /\ loc.args_new = Empty
    /\ tags = {}
    /\ NsOf(hist.startNotes) = {}

\* C6 (as claimed): check without arguments, in a repository without tags
\* and without namespaces, returns 0.
C6_NoMarkersReturnsZero ==
    (NoMarkersNoNamespaces /\ Returned) => retval = 0

\* C6 (amended): that run returns 1 when the latest tag is looked up; it
\* lists no namespace and runs no round.
C6_NoMarkersReturnsOne ==
    NoMarkersNoNamespaces =>
        /\ pc \in { "chk_old", "chk_new", "chk_fetch", "chk_latest",
                    "returned", "exited" }
        /\ ~hist.enumerated
        /\ hist.mkdtemps = 0
        /\ hist.diffs = 0
        /\ Finished => retval = 1

C6_Witness == NoMarkersNoNamespaces /\ pc = "returned" /\ hist.fetches = 1

InvalidMarker ==
    /\ cmd = "check"
    /\ \/ loc.args_old # Empty /\ loc.args_old \notin tags
       \/ loc.args_new # Empty /\ loc.args_new \notin tags

\* C10: with an explicit old or new marker that does not resolve,
\* command_check returns non-zero and has done nothing else: no fetch, no
\* enumeration, no channel, no diff tool, no producer.
C10_InvalidMarkerFailsFast ==
    InvalidMarker =>
        /\ pc \in { "chk_old", "chk_new", "returned", "exited" }
        /\ Finished => retval # 0
        /\ hist.fetches = 0
        /\ ~hist.enumerated
        /\ hist.mkdtemps = 0
        /\ hist.diffs = 0
        /\ hist.prods = 0
        /\ dirs = {}
        /\ notes = hist.startNotes

C10_Witness ==
    /\ cmd = "check"
    /\ pc = "returned"
    /\ loc.args_old \in tags
    /\ loc.args_new # Empty
    /\ loc.args_new \notin tags

\* C11: a failed fetch is never fatal to check.  After it the signature
\* database is the one the command started with, the old marker is still
\* resolved and the namespaces of that database are enumerated, every round
\* is run, and the command returns what the diff statuses alone determine;
\* it ends early only for the reasons that also end it after a fetch that
\* succeeded: no latest release, or a failed listing.
C11_FetchFailureNotFatal ==
    (cmd = "check" /\ "fetch" \in hist.faults) =>
        /\ notes = hist.startNotes
        /\ hist.enumerated =>
              loc.refs = OutputLines(ForEachRef(hist.startNotes))
        /\ (Returned /\ hist.enumerated) =>
              /\ Len(hist.statuses) = Len(loc.refs)
              /\ retval = FirstNonZero(hist.statuses)
        /\ (Returned /\ ~hist.enumerated) =>
              /\ retval = 1
              /\ \/ loc.args_old = Empty /\ ~GetLatestRelease.ok
                 \/ "list" \in hist.faults

C11_Witness ==
    /\ cmd = "check"
    /\ "fetch" \in hist.faults
    /\ Returned
    /\ Len(hist.statuses) = 2
    /\ retval = 0

\* C12: a round that compares two records never gets stuck while its diff
\* tool is alive: whatever the diff tool has opened and read so far, and at
\* every statement of the round, the orchestrator, the diff tool or a
\* producer can take a step.
C12_TwoRecordRoundNeverStuck ==
    (InRound /\ loc.new_ref # Empty /\ proc.diff = "running") =>
        ENABLED NextSeq

\* C13: when the diff tool has exited without ever opening the old FIFO,
\* the round is not stuck: the orchestrator or a producer can still take a
\* step, so that the round ends and check returns.
C13_ExitWithoutOpenNotStuck ==
    (/\ InRound
     /\ loc.api_xml_basename # Empty
     /\ proc.diff = "exited"
     /\ proc.rd.old = "closed") => ENABLED NextCheck

\* C14 (as claimed): the orchestrator never holds the write end of a FIFO,
\* and inside a round it is suspended only in a process wait.
C14_OrchestratorNeverOpensFifo ==
    cmd = "check" =>
        /\ \A f \in Fifos : "orch" \notin proc.wr[f]
        /\ (InRound /\ ~ENABLED OrchestratorStep) =>
              pc \in { "r_wait_old", "r_wait_new", "r_wait_diff" }

\* C14 (amended): the orchestrator itself opens the write end of every FIFO
\* that has a producer, after the diff tool is started and with the diff
\* tool as the reader; it holds the old end from the open until the
\* producers have been waited for and the new end only while the new
\* producer is started; a producer holds only the end it inherited, while
\* it runs; and inside a round the orchestrator is suspended only in one of
\* these two opens or in a process wait.
C14_OrchestratorOpensFifos ==
    cmd = "check" =>
        /\ "orch" \in proc.wr.old <=>
              (InRound /\ pc \in { "r_popen_old", "r_new", "r_popen_new",
                                    "r_wait_old", "r_wait_new" })
        /\ "orch" \in proc.wr.new <=>
              (InRound /\ pc = "r_popen_new" /\ loc.new_ref # Empty)
        /\ \A f \in Fifos :
              /\ "orch" \in proc.wr[f] =>
                    proc.diff # "none" /\ proc.rd[f] \in { "open", "done" }
              /\ "prod" \in proc.wr[f] => proc.prod[f] = "running"
        /\ (InRound /\ pc \notin { "r_open_old", "r_new", "r_wait_old",
                                     "r_wait_new", "r_wait_diff" }) =>
              ENABLED OrchestratorStep

C14_Witness ==
    /\ InRound
    /\ "orch" \in proc.wr.old
    /\ "orch" \in proc.wr.new
    /\ proc.prod.old = "running"

\* C15: in a round the channels that exist are those of the endpoints that
\* are record lookups: one, for the old endpoint, when the new endpoint is
\* the working copy, and two when it is an explicit marker; each of them is
\* an argument of the diff tool.
C15_ChannelPerRecordEndpoint ==
    (InRound /\ loc.api_xml_basename # Empty) =>
        /\ Cardinality(dirs) <= (IF loc.new_ref = Empty THEN 1 ELSE 2)
        /\ \A d \in dirs : IsFifoArg(d[2])

\* C16: a failure to create a channel ends only the round it happens in:
\* command_check is not left by an exception, so that the loop goes on with
\* the next namespace and the command returns its aggregated status.
C16_ChannelFailureEndsRoundOnly ==
    (cmd = "check" /\ "channel" \in hist.faults) =>
        /\ ~hist.raised
        /\ pc = "exited" => Len(hist.statuses) + 1 >= Len(loc.refs)

\* C17: the exit status of a producer is never looked at.  Whether the
\* producers succeeded or failed, the waits for them go on to the next
\* statement without touching retval and without an exception, and the end
\* of the round records the exit status of the diff tool and folds that
\* status, and nothing else, into retval.
C17_ProducerStatusIgnored ==
    [][ (cmd = "check" /\ pc # pc') =>
          /\ pc = "r_wait_old" =>
                pc' = "r_wait_new" /\ retval' = retval /\ ~hist'.raised
          /\ pc = "r_wait_new" =>
                pc' = "r_wait_diff" /\ retval' = retval /\ ~hist'.raised
          /\ pc = "r_wait_diff" =>
                /\ pc' = "chk_loop"
                /\ ~hist'.raised
                /\ hist'.statuses = Append(hist.statuses, proc.status)
                /\ retval' = IF retval = 0 THEN proc.status ELSE retval
      ]_vars

C17_Witness ==
    /\ cmd = "check"
    /\ pc = "chk_loop"
    /\ loc.k = 2
    /\ loc.new_ref # Empty
    /\ proc.prod.old = "exited_failed"
    /\ proc.prod.new = "exited_failed"
    /\ hist.statuses = << 0 >>
    /\ retval = 0

Alive ==
    (IF proc.diff = "running" THEN { "diff" } ELSE {})
    \cup { f \in Fifos : proc.prod[f] = "running" }

\* C18: rounds are sequential and bounded.  At most three subprocesses of
\* the round are alive; when the orchestrator waits for the diff tool, and
\* from then on, no producer of the round is alive; when the loop comes back
\* to its head after a round, and when the command has returned, every
\* process of that round has terminated and every diff tool launched so
\* far has been waited for; and the channels of a round are created, and
\* its diff tool launched, with no subprocess alive.
C18_RoundsSequential ==
    (cmd = "check" /\ hist.enumerated /\ ~hist.raised) =>
        /\ Cardinality(Alive) <= 3
        /\ pc = "r_wait_new" => proc.prod.old # "running"
        /\ pc = "r_wait_diff" => Alive \subseteq { "diff" }
        /\ pc \in { "chk_loop", "returned", "exited" } =>
              /\ loc.k > 1 => (Alive = {} /\ proc.diff = "exited")
              /\ Len(hist.statuses) = hist.diffs
        /\ pc \in { "r_pipe_old", "r_pipe_new", "r_resolve", "r_popen_diff" } =>
              /\ proc = NoProc
              /\ Len(hist.statuses) = hist.diffs
        /\ InRound => hist.diffs <= loc.k /\ hist.prods <= 2 * loc.k

C18_Witness ==
    /\ InRound
    /\ loc.k = 2
    /\ Cardinality(Alive) = 3
    /\ hist.diffs = 2
    /\ hist.statuses = << 3 >>

\* C19: once install has the tag list it is never ended by a file.  Every
\* pair of a tag and a file is attempted, in order; a pair that cannot be
\* resolved or attached is skipped; the push is attempted once, after the
\* last pair; install returns 0 if the push succeeded and 1 if it failed;
\* and after a failed push the records written by the run, and those that
\* were there before, are still in the local database.
C19_InstallNeverAborts ==
    (cmd = "install" /\ loc # NoLoc) =>
        LET all == Len(loc.tag_list) * Len(files)
        IN  /\ pc \in { "inst_file", "inst_push", "returned", "exited" }
            /\ ~hist.raised
            /\ pc = "inst_file" =>
                  /\ hist.attempted =
                        (loc.tag_i - 1) * Len(files) + loc.file_i - 1
                  /\ hist.pushes = 0
            /\ pc = "inst_push" => hist.attempted = all /\ hist.pushes = 0
            /\ pc \in { "returned", "exited" } =>
                  /\ hist.attempted = all
                  /\ hist.pushes = 1
                  /\ retval = (IF "push" \in hist.faults THEN 1 ELSE 0)
            /\ hist.startNotes \subseteq notes
            /\ Cardinality(notes \ hist.startNotes) = hist.writes

C19_Witness ==
    /\ cmd = "install"
    /\ pc = "returned"
    /\ "push" \in hist.faults
    /\ retval = 1
    /\ Len(loc.tag_list) = 2
    /\ hist.attempted = 4
    /\ hist.writes = 1
    /\ hist.startNotes # {}

\* C20: check only reads the signature database.  The one step of check
\* that may change the local database is its fetch, which happens once;
\* every other step, up to the return and the exit, leaves the local
\* database as it is, no step writes a record, and no step changes the
\* remote database or pushes to it.
C20_CheckReadOnlyAfterFetch ==
    [][ cmd' = "check" =>
          /\ pc # "chk_fetch" => notes' = notes
          /\ remote' = remote
          /\ hist'.fetches <= 1
          /\ pc \notin { "chk_fetch", "idle", "exited" } =>
                hist'.fetches = hist.fetches
          /\ hist'.pushes = 0
          /\ hist'.writes = 0
      ]_vars

C20_Witness ==
    /\ cmd = "check"
    /\ Returned
    /\ hist.fetches = 1
    /\ notes # hist.startNotes
    /\ Len(hist.statuses) = 2


====
